---------------------------- MODULE Spec2Model ----------------------------
(***************************************************************************)
(* Partner compatibility scoring, match ranking and radial layout of the   *)
(* radar matching component                                                *)
(* (src/src/components/matching/RadarMatching.tsx).                        *)
(*                                                                         *)
(* Strings are tuples of one-character strings so that toLowerCase and     *)
(* includes are computed, not assumed.  Fractions (the unrounded scores)   *)
(* are kept exactly as numerator/denominator pairs.                        *)
(***************************************************************************)
EXTENDS Integers, Sequences, FiniteSets, TLC

VARIABLES
    pc,                  \* position of the flow under study
    users,               \* the stored 'users' node: records in key order
    authUid,             \* auth.currentUser.uid
    profileLoaded,       \* currentUserProfile !== null
    currentUserProfile,  \* the requester profile (meaningful when loaded)
    partner,             \* argument of calculateSmartCompatibility
    locals,              \* its local variables, unrounded
    compatibility,       \* its returned breakdown
    snapshot,            \* what the users query delivered to the last fetch
    potentialPartners,   \* result of fetchPotentialPartners
    isScanning, showMatches, scanProgress, matchedPartners,
    intervalActive,      \* the setInterval timer of the running scan
    previous,            \* the call before a profile was changed, and the change
    container,           \* radarContainerRef.current and its client size
    positions,           \* the positions array of one layout pass
    passI, pairJ, pairK, \* the loop counters i, j, k of adjustPositions
    hasCollision,        \* its flag of the current pass
    passStart,           \* history: the positions when the current pass began
    placement,           \* ring, radius and angle of each map callback
    radarPositions       \* what calculateRadarPositions returned to the render

vars == <<pc, users, authUid, profileLoaded, currentUserProfile, partner,
          locals, compatibility, snapshot, potentialPartners, isScanning,
          showMatches, scanProgress, matchedPartners, intervalActive,
          previous, container, positions, passI, pairJ, pairK, hasCollision,
          passStart, placement, radarPositions>>

scoreVars == <<partner, locals, compatibility, previous>>
loopVars == <<positions, passI, pairJ, pairK, hasCollision, passStart>>
layoutVars == <<container, positions, passI, pairJ, pairK, hasCollision,
                passStart, placement, radarPositions>>
scanVars == <<users, authUid, snapshot, potentialPartners, isScanning,
              showMatches, scanProgress, matchedPartners, intervalActive>>

-----------------------------------------------------------------------------
(* Bounds of the model *)

MaxSubjects == 2      \* longest subject list of a profile
MaxUsers == 8         \* most records under 'users' (requester included)

-----------------------------------------------------------------------------
(* Strings *)

Calculus == <<"C", "a", "l", "c", "u", "l", "u", "s">>
CalculusII == <<"C", "a", "l", "c", "u", "l", "u", "s", " ", "I", "I">>
Physics == <<"P", "h", "y", "s", "i", "c", "s">>
physicsLower == <<"p", "h", "y", "s", "i", "c", "s">>

SubjectNames == {Calculus, CalculusII, Physics, physicsLower}

LowerChar(c) ==
    CASE c = "C" -> "c"
      [] c = "P" -> "p"
      [] c = "I" -> "i"
      [] OTHER -> c

toLowerCase(s) == [i \in 1..Len(s) |-> LowerChar(s[i])]

\* s.includes(t): t occurs in s as a contiguous run
includes(s, t) ==
    \E i \in 0..(Len(s) - Len(t)) : SubSeq(s, i + 1, i + Len(t)) = t

\* mutant: exact comparison instead of lower-cased containment
subjectsOverlapExact(userSubject, subject) == userSubject = subject

\* the predicate of the inner some() callback
subjectsOverlap(userSubject, subject) ==
    \/ includes(toLowerCase(userSubject), toLowerCase(subject))
    \/ includes(toLowerCase(subject), toLowerCase(userSubject))

-----------------------------------------------------------------------------
(* Arithmetic *)

Max(a, b) == IF a >= b THEN a ELSE b
Min(a, b) == IF a <= b THEN a ELSE b
Abs(a) == IF a < 0 THEN -a ELSE a

\* mutant: Math.floor in place of Math.round
MathFloor(n, d) == n \div d

\* Math.round of the non-negative fraction n/d: nearest integer, halves up
MathRound(n, d) == (2 * n + d) \div (2 * d)

\* x.length || 1
LengthOr1(hasList, list) == IF hasList /\ Len(list) > 0 THEN Len(list) ELSE 1

-----------------------------------------------------------------------------
(* Profiles *)

\* a stored record of 'users/<key>' as the component reads it; hasSubjects
\* and hasYear tell whether the record carries subjects and yearOfStudy
Profile(hs, subj, uni, fac, city, country, year, field) ==
    [hasSubjects |-> hs, subjects |-> subj, university |-> uni,
     faculty |-> fac, city |-> city, country |-> country,
     hasYear |-> TRUE, yearOfStudy |-> year, studyField |-> field]

\* the record without yearOfStudy
withoutYear(p) == [p EXCEPT !.hasYear = FALSE, !.yearOfStudy = 0]

\* the value read of a university, city or country the record lacks
Undefined == "undefined"

\* placeholder held while currentUserProfile is null
NullProfile == Profile(FALSE, <<>>, "", "", "", "", 0, "")

SubjectLists == UNION {[1..n -> SubjectNames] : n \in 0..MaxSubjects}

Years == 0..4

\* the requester profiles scored against (identity fields fixed, by symmetry)
RequesterProfiles ==
    {Profile(TRUE, sl, "A", "F", "X", "C1", 2, "Math") : sl \in SubjectLists}
        \cup {Profile(FALSE, <<>>, "A", "F", "X", "C1", 2, "Math")}

PartnerFields == {"A", "B"} \X {"X", "Y"} \X {"C1", "C2"} \X Years

PartnerProfiles ==
    {Profile(TRUE, sl, f[1], "F", f[2], f[3], f[4], "Math") :
        sl \in SubjectLists, f \in PartnerFields}
        \cup {Profile(FALSE, <<>>, f[1], "F", f[2], f[3], f[4], "Math") :
                f \in PartnerFields}

-----------------------------------------------------------------------------
(* calculateSmartCompatibility *)

\* mutant: a subject that occurs twice in the partner's list is counted once
RECURSIVE distinctOnly(_)
distinctOnly(list) ==
    IF list = <<>> THEN <<>>
    ELSE LET rest == distinctOnly(SubSeq(list, 1, Len(list) - 1))
             last == list[Len(list)]
         IN  IF \E k \in 1..Len(rest) : rest[k] = last
                 THEN rest ELSE Append(rest, last)

commonSubjectsDistinct(cur, p) ==
    IF p.hasSubjects
        THEN distinctOnly(SelectSeq(p.subjects,
                 LAMBDA subject :
                     /\ cur.hasSubjects
                     /\ \E k \in 1..Len(cur.subjects) :
                            subjectsOverlap(cur.subjects[k], subject)))
        ELSE <<>>

\* partner.subjects?.filter(subject => currentUserProfile.subjects?.some(...)) || []
commonSubjects(cur, p) ==
    IF p.hasSubjects
        THEN SelectSeq(p.subjects,
                 LAMBDA subject :
                     /\ cur.hasSubjects
                     /\ \E k \in 1..Len(cur.subjects) :
                            subjectsOverlap(cur.subjects[k], subject))
        ELSE <<>>

\* mutant: the shorter of the two lists as denominator
subjectDenominatorMin(cur, p) ==
    Min(LengthOr1(p.hasSubjects, p.subjects),
        LengthOr1(cur.hasSubjects, cur.subjects))

\* Math.max(partner.subjects?.length || 1, currentUserProfile.subjects?.length || 1)
subjectDenominator(cur, p) ==
    Max(LengthOr1(p.hasSubjects, p.subjects),
        LengthOr1(cur.hasSubjects, cur.subjects))

\* mutant: the overlap is counted on the requester's list
subjectScoreOfRequesterSide(cur, p) ==
    [num |-> Len(commonSubjects(p, cur)) * 100, den |-> subjectDenominator(cur, p)]

\* subjectScore, unrounded, as the fraction num/den
subjectScoreOf(cur, p) ==
    [num |-> Len(commonSubjects(cur, p)) * 100, den |-> subjectDenominator(cur, p)]

\* mutant: another faculty of the same university scores less
institutionScoreOfByFaculty(cur, p) ==
    IF p.university = cur.university
        THEN (IF p.faculty = cur.faculty THEN 100 ELSE 80)
        ELSE 60

\* mutant: two records without a university do not match
institutionScoreOfDefinedOnly(cur, p) ==
    IF p.university = cur.university /\ p.university # Undefined
        THEN 100
        ELSE 60

\* partner.university === currentUserProfile.university, then the faculties:
\* 100 on both branches, else 60
institutionScoreOf(cur, p) ==
    IF p.university = cur.university
        THEN (IF p.faculty = cur.faculty THEN 100 ELSE 100)
        ELSE 60

\* mutant: the country is compared before the city
locationScoreOfCountryFirst(cur, p) ==
    IF p.country = cur.country
        THEN (IF p.city = cur.city THEN 100 ELSE 70)
        ELSE 30

locationScoreOf(cur, p) ==
    IF p.city = cur.city THEN 100
    ELSE IF p.country = cur.country THEN 70
    ELSE 30

\* mutant: strict comparison of the year difference
yearBonusOfStrict(cur, p) ==
    IF /\ p.hasYear
       /\ cur.hasYear
       /\ Abs(p.yearOfStudy - cur.yearOfStudy) < 1
        THEN 10 ELSE 0

\* mutant: a missing year counts as year 0
yearBonusOfAbsentAsZero(cur, p) ==
    IF Abs(p.yearOfStudy - cur.yearOfStudy) <= 1 THEN 10 ELSE 0

\* Math.abs(partner.yearOfStudy - currentUserProfile.yearOfStudy) <= 1 ? 10 : 0;
\* with a year missing the difference is NaN and the comparison false
yearBonusOf(cur, p) ==
    IF /\ p.hasYear
       /\ cur.hasYear
       /\ Abs(p.yearOfStudy - cur.yearOfStudy) <= 1
        THEN 10 ELSE 0

\* mutant: the bonus is added twice
totalScoreOfDoubleBonus(s, i, l, b) ==
    [num |-> 4 * s.num + s.den * (3 * i + 2 * l + 20 * b), den |-> 10 * s.den]

\* subjectScore*0.4 + institutionScore*0.3 + locationScore*0.2 + yearBonus,
\* over the common denominator 10 * s.den
totalScoreOf(s, i, l, b) ==
    [num |-> 4 * s.num + s.den * (3 * i + 2 * l + 10 * b), den |-> 10 * s.den]

\* the local variables of one call, requester present
scoreLocals(cur, p) ==
    LET s == subjectScoreOf(cur, p)
        i == institutionScoreOf(cur, p)
        l == locationScoreOf(cur, p)
        b == yearBonusOf(cur, p)
    IN  [subjectScore |-> s, institutionScore |-> i, locationScore |-> l,
         yearBonus |-> b, totalScore |-> totalScoreOf(s, i, l, b)]

ZeroLocals ==
    [subjectScore |-> [num |-> 0, den |-> 1], institutionScore |-> 0,
     locationScore |-> 0, yearBonus |-> 0, totalScore |-> [num |-> 0, den |-> 1]]

\* the returned breakdown
calculateSmartCompatibility(loaded, cur, p) ==
    IF ~loaded
        THEN [total |-> 0, subject |-> 0, institution |-> 0, location |-> 0]
        ELSE LET v == scoreLocals(cur, p)
             IN  [total |-> MathRound(v.totalScore.num, v.totalScore.den),
                  subject |-> MathRound(v.subjectScore.num, v.subjectScore.den),
                  institution |-> MathRound(v.institutionScore, 1),
                  location |-> MathRound(v.locationScore, 1)]

NoCompatibility == [total |-> 0, subject |-> 0, institution |-> 0, location |-> 0]

-----------------------------------------------------------------------------
(* Specification of the scorer: one call on every requester/partner pair *)

\* nothing mounted, no layout pass running
NoContainer == [mounted |-> FALSE, clientWidth |-> 0, clientHeight |-> 0]

LoopIdle ==
    /\ positions = <<>>
    /\ passI = 0
    /\ pairJ = 0
    /\ pairK = 0
    /\ hasCollision = FALSE
    /\ passStart = <<>>
    /\ placement = <<>>

LayoutIdle ==
    /\ container = NoContainer
    /\ LoopIdle
    /\ radarPositions = <<>>

\* no earlier call recorded
NoPrevious ==
    [scored |-> FALSE, locals |-> ZeroLocals, compatibility |-> NoCompatibility,
     change |-> [side |-> "none", field |-> "none"]]

ScanIdle ==
    /\ users = <<>>
    /\ authUid = 0
    /\ snapshot = <<>>
    /\ potentialPartners = <<>>
    /\ isScanning = FALSE
    /\ showMatches = FALSE
    /\ scanProgress = 0
    /\ matchedPartners = <<>>
    /\ intervalActive = FALSE

InitScore ==
    /\ pc = "call"
    /\ profileLoaded \in BOOLEAN
    /\ currentUserProfile \in
           (IF profileLoaded THEN RequesterProfiles ELSE {NullProfile})
    /\ partner \in PartnerProfiles
    /\ locals = ZeroLocals
    /\ compatibility = NoCompatibility
    /\ previous = NoPrevious
    /\ ScanIdle
    /\ LayoutIdle

Score ==
    /\ pc = "call"
    /\ pc' = "scored"
    /\ locals' = (IF profileLoaded THEN scoreLocals(currentUserProfile, partner)
                  ELSE ZeroLocals)
    /\ compatibility' =
           calculateSmartCompatibility(profileLoaded, currentUserProfile, partner)
    /\ UNCHANGED <<profileLoaded, currentUserProfile, partner, previous>>
    /\ UNCHANGED scanVars
    /\ UNCHANGED layoutVars

NextScore == Score

SpecScore == InitScore /\ [][NextScore]_vars

-----------------------------------------------------------------------------
(* Claims about the scorer, checked under SpecScore *)

Scored == pc = "scored"

\* the pair of the concrete scenario
ScenarioRequester ==
    Profile(TRUE, <<Calculus, Physics>>, "A", "F", "X", "C1", 2, "Math")
ScenarioPartner == Profile(TRUE, <<CalculusII>>, "A", "F", "X", "C1", 2, "Math")

ScenarioScored ==
    /\ Scored
    /\ profileLoaded
    /\ currentUserProfile = ScenarioRequester
    /\ partner = ScenarioPartner

\* the fraction f equals the integer n
FracEq(f, n) == f.num = n * f.den

\* C1 as stated: the scenario scores subject 100, institution 100,
\* location 100, bonus 10 and total 110.
C1_Original ==
    ScenarioScored =>
        /\ FracEq(locals.subjectScore, 100)
        /\ locals.institutionScore = 100
        /\ locals.locationScore = 100
        /\ locals.yearBonus = 10
        /\ compatibility.total = 110

\* C1 amended: scoring {A, X, C1, year 2, [Calculus, Physics]} against
\* {A, X, C1, year 2, [Calculus II]} yields subjectScore 50 (one overlapping
\* subject over max(1, 2) subjects), institutionScore 100, locationScore 100,
\* yearBonus 10 and total 80.
C1_ScenarioScores ==
    ScenarioScored =>
        /\ FracEq(locals.subjectScore, 50)
        /\ compatibility.subject = 50
        /\ locals.institutionScore = 100
        /\ compatibility.institution = 100
        /\ locals.locationScore = 100
        /\ compatibility.location = 100
        /\ locals.yearBonus = 10
        /\ compatibility.total = 80

C1_Witness == ScenarioScored /\ compatibility.total = 80

\* positions of the partner's subjects that overlap some requester subject:
\* one contains the other after lower-casing
OverlapSet(cur, p) ==
    {j \in 1..Len(p.subjects) :
        \E k \in 1..Len(cur.subjects) :
            LET a == toLowerCase(p.subjects[j])
                b == toLowerCase(cur.subjects[k])
            IN  includes(a, b) \/ includes(b, a)}

\* C2: subjectScore = 100 * |overlapping partner subjects| /
\* max(|partner subjects|, |requester subjects|, 1); an empty or absent
\* subject list on either side gives subjectScore 0.
C2_SubjectScoreFormula ==
    (Scored /\ profileLoaded) =>
        LET cur == currentUserProfile
            n == Cardinality(OverlapSet(cur, partner))
            m == Max(Max(Len(partner.subjects), Len(cur.subjects)), 1)
        IN  /\ locals.subjectScore.num * m = 100 * n * locals.subjectScore.den
            /\ locals.subjectScore.den > 0
            /\ (\/ ~partner.hasSubjects \/ partner.subjects = <<>>
                \/ ~cur.hasSubjects \/ cur.subjects = <<>>)
                   => locals.subjectScore.num = 0

\* a pair that overlaps only through case folding, in lists of unequal length
C2_Witness ==
    /\ Scored
    /\ profileLoaded
    /\ currentUserProfile.subjects = <<Physics, Calculus>>
    /\ partner.subjects = <<physicsLower>>
    /\ FracEq(locals.subjectScore, 50)

\* total is Math.round of subject*0.4 + institution*0.3 + location*0.2 + bonus
\* taken on the unrounded subjectScore: x - 1/2 < total <= x + 1/2
TotalIsRoundedSum ==
    LET s == locals.subjectScore
        xn == 4 * s.num
                + s.den * (3 * locals.institutionScore
                           + 2 * locals.locationScore + 10 * locals.yearBonus)
        xd == 10 * s.den
    IN  /\ 2 * xn - xd < 2 * xd * compatibility.total
        /\ 2 * xd * compatibility.total <= 2 * xn + xd

YearBonusRule ==
    locals.yearBonus =
        (IF Abs(partner.yearOfStudy - currentUserProfile.yearOfStudy) <= 1
            THEN 10 ELSE 0)

AllComponentsFull ==
    /\ FracEq(locals.subjectScore, 100)
    /\ locals.institutionScore = 100
    /\ locals.locationScore = 100
    /\ locals.yearBonus = 10

\* C3 as stated: total is the rounded weighted sum with the year bonus, and
\* the bonus pushes it above 100 (into 101..110) when the components are
\* full.
C3_Original ==
    (Scored /\ profileLoaded) =>
        /\ TotalIsRoundedSum
        /\ YearBonusRule
        /\ AllComponentsFull => compatibility.total \in 101..110

\* C3 amended: total = round(subjectScore*0.4 + institutionScore*0.3 +
\* locationScore*0.2 + yearBonus) on the unrounded subjectScore, yearBonus
\* being 10 when the years differ by at most 1 and 0 otherwise; no clamp is
\* applied, and the largest total is 100 (40 + 30 + 20 + 10), so no total in
\* 101..110 is reachable.
C3_TotalFormula ==
    (Scored /\ profileLoaded) =>
        /\ TotalIsRoundedSum
        /\ YearBonusRule
        /\ compatibility.total \notin 101..110
        /\ AllComponentsFull => compatibility.total = 100

\* every component full, with the year bonus
C3_Witness ==
    /\ Scored
    /\ profileLoaded
    /\ AllComponentsFull
    /\ compatibility.total = 100

\* C4: the returned subject, institution and location scores lie in 0..100
\* and the returned total is at most 110.
C4_ScoreRange ==
    Scored =>
        /\ compatibility.subject \in 0..100
        /\ compatibility.institution \in 0..100
        /\ compatibility.location \in 0..100
        /\ compatibility.total <= 110

\* every overlap counted on a partner list longer than the requester's
C4_Witness ==
    /\ Scored
    /\ profileLoaded
    /\ Len(partner.subjects) > Len(currentUserProfile.subjects)
    /\ Len(currentUserProfile.subjects) > 0
    /\ compatibility.subject = 100
    /\ compatibility.institution = 100
    /\ compatibility.location = 100

\* C5: the total of every breakdown lies in 0..100.
C5_TotalRange == Scored => compatibility.total \in 0..100

\* the largest weighted sum together with the year bonus
C5_Witness ==
    /\ Scored
    /\ profileLoaded
    /\ locals.yearBonus = 10
    /\ locals.totalScore.num = 100 * locals.totalScore.den
    /\ compatibility.total = 100

-----------------------------------------------------------------------------
(* Specification of a partner that gains a subject between two calls *)

\* partner profiles whose subject list grows: two settings of the other fields
GrowingPartners ==
    {p \in PartnerProfiles :
        \/ p.university = "A" /\ p.city = "X" /\ p.country = "C1"
               /\ p.yearOfStudy = 2
        \/ p.university = "B" /\ p.city = "Y" /\ p.country = "C2"
               /\ p.yearOfStudy = 4}

\* the subject overlaps a subject of the requester
OverlapsRequester(subject) ==
    /\ currentUserProfile.hasSubjects
    /\ \E k \in 1..Len(currentUserProfile.subjects) :
           LET a == toLowerCase(subject)
               b == toLowerCase(currentUserProfile.subjects[k])
           IN  includes(a, b) \/ includes(b, a)

InitAppend ==
    /\ pc = "call"
    /\ profileLoaded = TRUE
    /\ currentUserProfile \in RequesterProfiles
    /\ partner \in GrowingPartners
    /\ locals = ZeroLocals
    /\ compatibility = NoCompatibility
    /\ previous = NoPrevious
    /\ ScanIdle
    /\ LayoutIdle

\* the stored partner gains one subject that overlaps a requester subject;
\* the locals of the call made before are kept for comparison
AppendSubject ==
    /\ pc = "scored"
    /\ ~previous.scored
    /\ \E subject \in SubjectNames :
           /\ OverlapsRequester(subject)
           /\ partner' = [partner EXCEPT !.hasSubjects = TRUE,
                                         !.subjects = Append(@, subject)]
    /\ previous' = [scored |-> TRUE, locals |-> locals,
                     compatibility |-> compatibility,
                     change |-> [side |-> "partner", field |-> "append"]]
    /\ pc' = "call"
    /\ UNCHANGED <<profileLoaded, currentUserProfile, locals, compatibility>>
    /\ UNCHANGED scanVars
    /\ UNCHANGED layoutVars

NextAppend == Score \/ AppendSubject

SpecAppend == InitAppend /\ [][NextAppend]_vars

\* C11: appending to the partner's subject list a subject that overlaps some
\* requester subject never decreases the unrounded subjectScore.
C11_MonotonicSubject ==
    (Scored /\ previous.scored) =>
        previous.locals.subjectScore.num * locals.subjectScore.den
            <= locals.subjectScore.num * previous.locals.subjectScore.den

\* the appended subject repeats one the partner already had, on a list at
\* least as long as the requester's, and the score strictly grows
C11_Witness ==
    /\ Scored
    /\ previous.scored
    /\ Len(partner.subjects) > Len(currentUserProfile.subjects)
    /\ \E k \in 1..(Len(partner.subjects) - 1) :
           partner.subjects[k] = partner.subjects[Len(partner.subjects)]
    /\ previous.locals.subjectScore.num * locals.subjectScore.den
           < locals.subjectScore.num * previous.locals.subjectScore.den


-----------------------------------------------------------------------------
(* The radar scan: profile fetch, partner fetch, progress timer, ranking *)

TopMatches == 6          \* slice(0, 6)
ProgressStep == 2        \* prev + 2
ProgressFull == 100      \* prev >= 100

\* the stored record of the signed-in user
RequesterRecord == ScenarioRequester

\* stored records of other users: a close match and a distant match in the
\* requester's study field, and a user of another study field
CloseRecord == Profile(TRUE, <<CalculusII>>, "A", "F", "X", "C1", 2, "Math")
DistantRecord ==
    Profile(TRUE, <<physicsLower, Calculus>>, "B", "G", "Y", "C1", 4, "Math")
OtherFieldRecord == Profile(TRUE, <<Calculus>>, "A", "F", "X", "C1", 2, "Art")

\* the kinds of record found together in one store
RecordMixes == {{CloseRecord, DistantRecord}, {CloseRecord, OtherFieldRecord}}

\* keys the signed-in user's record is stored under, among n keys: the
\* first, a middle one and the last
RequesterKeys(n) == {1, (n + 1) \div 2, n}

\* the 'users' node: the record at index k is stored under key k, so the
\* sequence is in key order; exactly one record belongs to the signed-in user
UserStores ==
    UNION {{[k \in 1..n |-> IF k = r THEN RequesterRecord ELSE o[k]] :
               r \in RequesterKeys(n),
               o \in UNION {[1..n -> mix] : mix \in RecordMixes}} :
           n \in 1..MaxUsers}

\* { id: key, ...val }: a stored field named id would win over the key
WithId(key, val) == val @@ [id |-> key]

\* query(usersRef, orderByChild('studyField'), equalTo(field)): the children
\* whose studyField equals field, ordered by key
RECURSIVE queryByStudyField(_, _, _)
queryByStudyField(store, field, k) ==
    IF k > Len(store) THEN <<>>
    ELSE (IF store[k].studyField = field
             THEN <<[key |-> k, val |-> store[k]]>> ELSE <<>>)
         \o queryByStudyField(store, field, k + 1)

\* mutant: the requester's own child is pushed like any other
RECURSIVE collectPartnersAll(_, _)
collectPartnersAll(snap, cur) ==
    IF snap = <<>> THEN <<>>
    ELSE <<WithId(Head(snap).key, Head(snap).val)>>
             \o collectPartnersAll(Tail(snap), cur)

\* snapshot.forEach(child => { if (child.key !== currentUserProfile.id) push })
RECURSIVE collectPartners(_, _)
collectPartners(snap, cur) ==
    IF snap = <<>> THEN <<>>
    ELSE (IF Head(snap).key # cur.id
             THEN <<WithId(Head(snap).key, Head(snap).val)>> ELSE <<>>)
         \o collectPartners(Tail(snap), cur)

\* { ...partner, smartCompatibility, subjectMatch, institutionMatch, locationMatch }
scoredPartner(cur, p) ==
    LET c == calculateSmartCompatibility(TRUE, cur, p)
    IN  [smartCompatibility |-> c.total, subjectMatch |-> c.subject,
         institutionMatch |-> c.institution, locationMatch |-> c.location] @@ p

mapScored(cur, list) == [i \in 1..Len(list) |-> scoredPartner(cur, list[i])]

\* mutant: ascending comparator
compareAscending(a, b) == a.smartCompatibility - b.smartCompatibility

\* (a, b) => (b.smartCompatibility || 0) - (a.smartCompatibility || 0)
compare(a, b) == b.smartCompatibility - a.smartCompatibility

\* mutant: an element is inserted before the elements it ties with
RECURSIVE insertBeforeTies(_, _)
insertBeforeTies(sorted, x) ==
    IF sorted = <<>> THEN <<x>>
    ELSE IF compare(Head(sorted), x) < 0
             THEN <<Head(sorted)>> \o insertBeforeTies(Tail(sorted), x)
             ELSE <<x>> \o sorted

\* stable insertion: x goes after every element that does not sort after it
RECURSIVE insertSorted(_, _)
insertSorted(sorted, x) ==
    IF sorted = <<>> THEN <<x>>
    ELSE IF compare(Head(sorted), x) <= 0
             THEN <<Head(sorted)>> \o insertSorted(Tail(sorted), x)
             ELSE <<x>> \o sorted

\* Array.prototype.sort with the comparator: a stable sort
RECURSIVE sortMatches(_, _)
sortMatches(list, k) ==
    IF k = 0 THEN <<>>
    ELSE insertSorted(sortMatches(list, k - 1), list[k])

\* mutant: one entry more than the limit is kept
sliceTopOneMore(list) == SubSeq(list, 1, Min(TopMatches + 1, Len(list)))

\* .slice(0, 6)
sliceTop(list) == SubSeq(list, 1, Min(TopMatches, Len(list)))

\* potentialPartners.map(...).sort(...).slice(0, 6)
smartMatches(cur, partners) ==
    LET scored == mapScored(cur, partners)
    IN  sliceTop(sortMatches(scored, Len(scored)))

\* mutant: the totals are written into the fetched records and the fetched
\* array is sorted itself
partnersSortedInPlace(cur, partners) ==
    LET scored == mapScored(cur, partners)
    IN  sortMatches(scored, Len(scored))

\* the fetched array once the ranking is done: map() builds a new array of
\* new objects ({...partner, smartCompatibility}), sort() and slice() work on
\* that one, and calculateSmartCompatibility only reads its argument
partnersAfterRanking(cur, partners) == partners

-----------------------------------------------------------------------------
(* Radial layout: getCompatibilityRing, calculateRadarPositions,            *)
(* adjustPositions.  Coordinates are integers, Unit per pixel, rounded as   *)
(* a short floating-point number would hold them (stored); sequences are    *)
(* indexed from 1 where the arrays are indexed from 0.                      *)

Unit == 1000               \* resolution of a coordinate: 1/1000 pixel
MARGIN == 10               \* const MARGIN = 10
MAX_ITERATIONS == 50       \* const MAX_ITERATIONS = 50

\* MARGIN in coordinate units
Margin == MARGIN * Unit

\* a / b rounded to the nearest integer, halves away from zero (b > 0)
RoundDiv(a, b) ==
    IF a >= 0 THEN (2 * a + b) \div (2 * b) ELSE -((2 * (-a) + b) \div (2 * b))

\* spacing of the representable coordinates around a: coordinates are
\* floating-point numbers, held here with 18 significant bits, so the spacing
\* doubles at 2^18 and at 2^19 units
Spacing(a) == IF a < 2^18 THEN 1 ELSE IF a < 2^19 THEN 2 ELSE 4

\* the representable coordinate nearest to x: the rounding of a result that
\* is stored in x or y
stored(x) ==
    IF x >= 0 THEN RoundDiv(x, Spacing(x)) * Spacing(x)
    ELSE -(RoundDiv(-x, Spacing(-x)) * Spacing(-x))

\* largest r in lo..hi with r * r <= n
RECURSIVE SqrtSearch(_, _, _)
SqrtSearch(n, lo, hi) ==
    IF lo >= hi THEN lo
    ELSE LET mid == (lo + hi + 1) \div 2
         IN  IF mid * mid <= n THEN SqrtSearch(n, mid, hi)
             ELSE SqrtSearch(n, lo, mid - 1)

\* Math.sqrt of a number below Margin squared, to the unit
Sqrt(n) == SqrtSearch(n, 0, Margin)

\* Math.cos and Math.sin of the angles index * 360 / count, in thousandths;
\* the sevenths of the circle are listed under their whole degrees
CosMilli(deg) ==
    CASE deg = 0 -> 1000
      [] deg \in {60, 300} -> 500
      [] deg \in {72, 288} -> 309
      [] deg \in {90, 270} -> 0
      [] deg \in {120, 240} -> -500
      [] deg \in {144, 216} -> -809
      [] deg = 180 -> -1000
      [] deg \in {51, 308} -> 623
      [] deg \in {102, 257} -> -223
      [] deg \in {154, 205} -> -901

SinMilli(deg) ==
    CASE deg \in {0, 180} -> 0
      [] deg = 60 \/ deg = 120 -> 866
      [] deg = 72 -> 951
      [] deg = 90 -> 1000
      [] deg = 144 -> 588
      [] deg = 216 -> -588
      [] deg = 240 \/ deg = 300 -> -866
      [] deg = 270 -> -1000
      [] deg = 288 -> -951
      [] deg = 51 -> 782
      [] deg = 102 -> 975
      [] deg = 154 -> 434
      [] deg = 205 -> -434
      [] deg = 257 -> -975
      [] deg = 308 -> -782

\* mutant: the ring follows the place in the ranked list
getCompatibilityRingByRank(total, index) ==
    IF index = 0 THEN 0 ELSE IF index <= 2 THEN 1 ELSE 2

\* getCompatibilityRing(compatibility); index is the place in the list, from 0
getCompatibilityRing(total, index) ==
    IF total >= 90 THEN 0
    ELSE IF total >= 80 THEN 1
    ELSE 2

\* ring === 0 ? 0.25 : ring === 1 ? 0.4 : 0.6, in hundredths
radiusOf(ring) == IF ring = 0 THEN 25 ELSE IF ring = 1 THEN 40 ELSE 60

\* mutant: the angle is taken from the ring
placementOfByRing(matches, index) ==
    LET ring == getCompatibilityRing(matches[index + 1].smartCompatibility, index)
    IN  [ring |-> ring, radius |-> radiusOf(ring), angle |-> ring * 120]

\* the locals ring, radius and angle of the map callback at index (from 0)
placementOf(matches, index) ==
    LET ring == getCompatibilityRing(matches[index + 1].smartCompatibility, index)
    IN  [ring |-> ring, radius |-> radiusOf(ring),
         angle |-> (index * 360) \div Len(matches)]

\* the object the map callback returns at index (from 0)
initialPosition(cont, matches, index) ==
    LET centerX == (cont.clientWidth * Unit) \div 2
        centerY == (cont.clientHeight * Unit) \div 2
        v == placementOf(matches, index)
    IN  [id |-> matches[index + 1].id,
         x |-> stored(centerX
                 + RoundDiv(((v.radius * centerX) \div 100) * CosMilli(v.angle), 1000)),
         y |-> stored(centerY
                 + RoundDiv(((v.radius * centerY) \div 100) * SinMilli(v.angle), 1000))]

\* matchedPartners.map((partner, index) => ...)
initialPositions(cont, matches) ==
    [n \in 1..Len(matches) |-> initialPosition(cont, matches, n - 1)]

\* mutant: two points at the same place are left alone
collidesUnlessCoincident(pos, j, k) ==
    LET dx == pos[j].x - pos[k].x
        dy == pos[j].y - pos[k].y
    IN  /\ Abs(dx) < Margin
        /\ Abs(dy) < Margin
        /\ dx * dx + dy * dy < Margin * Margin
        /\ dx * dx + dy * dy > 0

\* distance < MARGIN for the points j and k
collides(pos, j, k) ==
    LET dx == pos[j].x - pos[k].x
        dy == pos[j].y - pos[k].y
    IN  /\ Abs(dx) < Margin
        /\ Abs(dy) < Margin
        /\ dx * dx + dy * dy < Margin * Margin

\* mutant: each point is pushed by the whole of MARGIN - distance
repelFullForce(pos, j, k) ==
    IF ~collides(pos, j, k) THEN pos
    ELSE LET dx == pos[j].x - pos[k].x
             dy == pos[j].y - pos[k].y
             distance == Sqrt(dx * dx + dy * dy)
             fx == IF distance = 0 THEN Margin
                   ELSE RoundDiv(dx * (Margin - distance), distance)
             fy == IF distance = 0 THEN 0
                   ELSE RoundDiv(dy * (Margin - distance), distance)
         IN  [pos EXCEPT ![j].x = stored(@ + fx), ![j].y = stored(@ + fy),
                         ![k].x = stored(@ - fx), ![k].y = stored(@ - fy)]

\* mutant: only the first point of the pair is pushed
repelFirstOnly(pos, j, k) ==
    IF ~collides(pos, j, k) THEN pos
    ELSE LET dx == pos[j].x - pos[k].x
             dy == pos[j].y - pos[k].y
             distance == Sqrt(dx * dx + dy * dy)
             fx == IF distance = 0 THEN RoundDiv(Margin, 2)
                   ELSE RoundDiv(dx * (Margin - distance), 2 * distance)
             fy == IF distance = 0 THEN 0
                   ELSE RoundDiv(dy * (Margin - distance), 2 * distance)
         IN  [pos EXCEPT ![j].x = stored(@ + fx), ![j].y = stored(@ + fy)]

\* the body of the inner loop for the pair j < k
repel(pos, j, k) ==
    IF ~collides(pos, j, k) THEN pos
    ELSE LET dx == pos[j].x - pos[k].x
             dy == pos[j].y - pos[k].y
             distance == Sqrt(dx * dx + dy * dy)
             \* Math.cos(angle) * force and Math.sin(angle) * force with
             \* angle = atan2(dy, dx), force = (MARGIN - distance) / 2;
             \* atan2(0, 0) is 0
             fx == IF distance = 0 THEN RoundDiv(Margin, 2)
                   ELSE RoundDiv(dx * (Margin - distance), 2 * distance)
             fy == IF distance = 0 THEN 0
                   ELSE RoundDiv(dy * (Margin - distance), 2 * distance)
         IN  [pos EXCEPT ![j].x = stored(@ + fx), ![j].y = stored(@ + fy),
                         ![k].x = stored(@ - fx), ![k].y = stored(@ - fy)]

\* mutant: the loop is never left before its last pass
breaksLoopNever(collided) == FALSE

\* mutant: the loop is left when the pass found a collision
breaksLoopOnCollision(collided) == collided

\* if (!hasCollision) break
breaksLoop(collided) == ~collided

\* the rest of one pass from the pair (j, k) on
RECURSIVE sweep(_, _, _, _)
sweep(pos, j, k, collided) ==
    IF j >= Len(pos) THEN [positions |-> pos, hasCollision |-> collided]
    ELSE IF k > Len(pos) THEN sweep(pos, j + 1, j + 2, collided)
    ELSE sweep(repel(pos, j, k), j, k + 1, collided \/ collides(pos, j, k))

\* the passes from pass i on
RECURSIVE passesFrom(_, _)
passesFrom(pos, i) ==
    IF i >= MAX_ITERATIONS THEN pos
    ELSE LET r == sweep(pos, 1, 2, FALSE)
         IN  IF breaksLoop(r.hasCollision) THEN r.positions
             ELSE passesFrom(r.positions, i + 1)

adjustPositions(pos) == passesFrom(pos, 0)

\* mutant: an empty list still yields a marker at the centre
calculateRadarPositionsCentreMarker(cont, matches) ==
    IF ~cont.mounted THEN <<>>
    ELSE IF matches = <<>>
        THEN <<[id |-> 0, x |-> (cont.clientWidth * Unit) \div 2,
                y |-> (cont.clientHeight * Unit) \div 2]>>
    ELSE adjustPositions(initialPositions(cont, matches))

calculateRadarPositions(cont, matches) ==
    IF ~cont.mounted THEN <<>>
    ELSE adjustPositions(initialPositions(cont, matches))

\* {showMatches && calculateRadarPositions().map(...)}
renderedPositions(shown, cont, matches) ==
    IF shown THEN calculateRadarPositions(cont, matches) ELSE <<>>

\* the radar container as laid out: w-full h-[500px] in the max-w-2xl card
RadarContainer == [mounted |-> TRUE, clientWidth |-> 608, clientHeight |-> 500]

\* mutant: the button is only disabled without a profile
scanButtonDisabledWithoutProfile(scanning, loaded) == ~loaded

\* disabled={isScanning || !currentUserProfile}
scanButtonDisabled(scanning, loaded) == scanning \/ ~loaded

\* mutant: the matches of the scan before stay shown
shownAtStartKept(shown) == shown

\* setShowMatches(false) at the start of a scan
shownAtStart(shown) == FALSE

\* mutant: the scan ends one tick late
scanFinishedLate(prev) == prev > ProgressFull

\* if (prev >= 100)
scanFinished(prev) == prev >= ProgressFull

\* mutant: progress by one
nextProgressByOne(prev) == prev + 1

\* return prev + 2
nextProgress(prev) == prev + ProgressStep

ScoreIdle ==
    /\ partner = NullProfile
    /\ locals = ZeroLocals
    /\ compatibility = NoCompatibility
    /\ previous = NoPrevious

InitScan ==
    /\ pc = "mounted"
    /\ users \in UserStores
    /\ authUid \in {k \in 1..Len(users) : users[k] = RequesterRecord}
    /\ profileLoaded = FALSE
    /\ currentUserProfile = NullProfile
    /\ snapshot = <<>>
    /\ potentialPartners = <<>>
    /\ isScanning = FALSE
    /\ showMatches = FALSE
    /\ scanProgress = 0
    /\ matchedPartners = <<>>
    /\ intervalActive = FALSE
    /\ ScoreIdle
    /\ container = RadarContainer
    /\ LoopIdle
    /\ radarPositions = <<>>

\* the mount effect: get(users/<uid>) resolves with the stored record
FetchCurrentUserProfile ==
    /\ pc = "mounted"
    /\ pc' = "idle"
    /\ profileLoaded' = TRUE
    /\ currentUserProfile' = users[authUid] @@ [id |-> authUid]
    /\ UNCHANGED scanVars
    /\ UNCHANGED scoreVars
    /\ UNCHANGED layoutVars

\* the mount effect: get(users/<uid>) rejects; the profile stays null
FetchCurrentUserProfileError ==
    /\ pc = "mounted"
    /\ pc' = "idle"
    /\ UNCHANGED <<profileLoaded, currentUserProfile>>
    /\ UNCHANGED scanVars
    /\ UNCHANGED scoreVars
    /\ UNCHANGED layoutVars

\* click on the scan button (disabled while scanning or without a profile),
\* up to the await of fetchPotentialPartners
StartRadarScan ==
    /\ ~scanButtonDisabled(isScanning, profileLoaded)
    /\ profileLoaded
    /\ pc' = "fetching"
    /\ isScanning' = TRUE
    /\ showMatches' = shownAtStart(showMatches)
    /\ scanProgress' = 0
    /\ UNCHANGED <<users, authUid, snapshot, potentialPartners, matchedPartners,
                   intervalActive, profileLoaded, currentUserProfile>>
    /\ radarPositions' = renderedPositions(showMatches', container, matchedPartners')
    /\ UNCHANGED scoreVars
    /\ UNCHANGED <<container, loopVars, placement>>

\* the users query resolves; startRadarScan resumes and sets the timer
FetchPotentialPartners ==
    /\ pc = "fetching"
    /\ pc' = "ticking"
    /\ snapshot' = queryByStudyField(users, currentUserProfile.studyField, 1)
    /\ potentialPartners' = collectPartners(snapshot', currentUserProfile)
    /\ intervalActive' = TRUE
    /\ UNCHANGED <<users, authUid, isScanning, showMatches, scanProgress,
                   matchedPartners, profileLoaded, currentUserProfile>>
    /\ UNCHANGED scoreVars
    /\ UNCHANGED layoutVars

\* the users query rejects: the catch returns []; the timer is set all the same
FetchPotentialPartnersError ==
    /\ pc = "fetching"
    /\ pc' = "ticking"
    /\ snapshot' = <<>>
    /\ potentialPartners' = <<>>
    /\ intervalActive' = TRUE
    /\ UNCHANGED <<users, authUid, isScanning, showMatches, scanProgress,
                   matchedPartners, profileLoaded, currentUserProfile>>
    /\ UNCHANGED scoreVars
    /\ UNCHANGED layoutVars

\* the interval callback: progress, or at 100 the end of the scan with its
\* ranking
Tick ==
    /\ pc = "ticking"
    /\ intervalActive
    /\ IF scanFinished(scanProgress)
          THEN /\ intervalActive' = FALSE
               /\ isScanning' = FALSE
               /\ matchedPartners' =
                      smartMatches(currentUserProfile, potentialPartners)
               /\ potentialPartners' =
                      partnersAfterRanking(currentUserProfile, potentialPartners)
               /\ showMatches' = TRUE
               /\ scanProgress' = 100
               /\ pc' = "idle"
          ELSE /\ scanProgress' = nextProgress(scanProgress)
               /\ UNCHANGED <<intervalActive, isScanning, matchedPartners,
                              potentialPartners, showMatches, pc>>
    /\ radarPositions' = renderedPositions(showMatches', container, matchedPartners')
    /\ UNCHANGED <<users, authUid, snapshot, profileLoaded, currentUserProfile>>
    /\ UNCHANGED scoreVars
    /\ UNCHANGED <<container, loopVars, placement>>

NextScan ==
    \/ FetchCurrentUserProfile
    \/ FetchCurrentUserProfileError
    \/ StartRadarScan
    \/ FetchPotentialPartners
    \/ FetchPotentialPartnersError
    \/ Tick

SpecScan == InitScan /\ [][NextScan]_vars

-----------------------------------------------------------------------------
(* Claims about the ranked list of a scan, checked under SpecScan *)

\* ids of the ranked list
MatchedIds == {matchedPartners[i].id : i \in 1..Len(matchedPartners)}

\* keys the query delivered other than the requester's
PoolKeys ==
    {snapshot[i].key : i \in 1..Len(snapshot)} \ {currentUserProfile.id}

\* the requester's own record came back from the query
RequesterInSnapshot ==
    \E i \in 1..Len(snapshot) : snapshot[i].key = currentUserProfile.id

\* position of an id in the fetched pool
PoolIndex(id) ==
    CHOOSE i \in 1..Len(potentialPartners) : potentialPartners[i].id = id

\* total of a pool entry, scored against the requester
PoolTotal(i) ==
    calculateSmartCompatibility(TRUE, currentUserProfile,
                                potentialPartners[i]).total

\* pool positions left out of the ranked list
LeftOut ==
    {i \in 1..Len(potentialPartners) : potentialPartners[i].id \notin MatchedIds}

\* C6: the ranked list of a scan never contains an entry whose id is the
\* requester's id, although the stored users include the requester's record.
C6_SelfExclusion ==
    profileLoaded =>
        \A i \in 1..Len(matchedPartners) :
            matchedPartners[i].id # currentUserProfile.id

C6_Witness ==
    /\ showMatches
    /\ RequesterInSnapshot
    /\ Len(snapshot) = Len(matchedPartners) + 1
    /\ Len(matchedPartners) > 1

\* C7: the ranked list has min(6, number of pool entries other than the
\* requester) entries.
C7_BoundedOutput ==
    showMatches =>
        Len(matchedPartners) = Min(6, Cardinality(PoolKeys))

C7_Witness ==
    /\ showMatches
    /\ Cardinality(PoolKeys) > 6
    /\ Len(matchedPartners) = 6

\* C8: the ranked list is ordered by total, non-increasing, and no entry left
\* out of it has a total greater than the total of an entry in it.
C8_SortedTopK ==
    showMatches =>
        /\ \A i, j \in 1..Len(matchedPartners) :
               i < j => matchedPartners[i].smartCompatibility
                            >= matchedPartners[j].smartCompatibility
        /\ \A e \in LeftOut : \A i \in 1..Len(matchedPartners) :
               PoolTotal(e) <= matchedPartners[i].smartCompatibility
        /\ \A i \in 1..Len(matchedPartners) :
               matchedPartners[i].smartCompatibility
                   = PoolTotal(PoolIndex(matchedPartners[i].id))

\* a pool that arrives out of order and loses a lower-scored entry
C8_Witness ==
    /\ showMatches
    /\ \E i, j \in 1..Len(potentialPartners) :
           i < j /\ PoolTotal(i) < PoolTotal(j)
    /\ \E e \in LeftOut : PoolTotal(e) < matchedPartners[6].smartCompatibility

\* C9: entries of equal total keep the relative order of the fetched pool,
\* and of the entries tied across the limit the earlier pool entries are kept.
C9_StableTieBreak ==
    showMatches =>
        /\ \A i, j \in 1..Len(matchedPartners) :
               (i < j /\ matchedPartners[i].smartCompatibility
                             = matchedPartners[j].smartCompatibility)
                   => PoolIndex(matchedPartners[i].id)
                          < PoolIndex(matchedPartners[j].id)
        /\ \A e \in LeftOut : \A i \in 1..Len(matchedPartners) :
               PoolTotal(e) = matchedPartners[i].smartCompatibility
                   => PoolIndex(matchedPartners[i].id) < e

\* a tie that straddles the limit, after entries of another total
C9_Witness ==
    /\ showMatches
    /\ \E e \in LeftOut : PoolTotal(e) = matchedPartners[6].smartCompatibility
    /\ matchedPartners[1].smartCompatibility
           > matchedPartners[5].smartCompatibility
    /\ matchedPartners[5].smartCompatibility
           = matchedPartners[6].smartCompatibility

-----------------------------------------------------------------------------
(* One render of the ranked list: calculateRadarPositions, with the loops   *)
(* of adjustPositions taken one pair at a time.                             *)

\* totals of the three rings
RingTotals == {95, 82, 70}

\* every total the scorer can give
AllTotals == 24..100

\* ranked totals: at most TopMatches, highest first
RankedTotals ==
    {t \in UNION {[1..n -> RingTotals] : n \in 0..TopMatches} :
        \A a \in 1..Len(t), b \in 1..Len(t) : a < b => t[a] >= t[b]}

\* one total at every place of the list
UniformTotals ==
    {[k \in 1..n |-> total] : n \in 1..TopMatches, total \in AllTotals}

\* what the layout reads of a matched partner
matchesOf(totals) ==
    [k \in 1..Len(totals) |-> [id |-> k, smartCompatibility |-> totals[k]]]

\* a container without size (not laid out) and a narrow one
ZeroContainer == [mounted |-> TRUE, clientWidth |-> 0, clientHeight |-> 0]
NarrowContainer == [mounted |-> TRUE, clientWidth |-> 10, clientHeight |-> 500]
SlimContainer == [mounted |-> TRUE, clientWidth |-> 20, clientHeight |-> 500]

InitLayout ==
    /\ pc = "render"
    /\ \/ /\ container \in {ZeroContainer, NarrowContainer, SlimContainer,
                             RadarContainer}
          /\ matchedPartners \in {matchesOf(t) : t \in RankedTotals}
       \/ /\ container = RadarContainer
          /\ matchedPartners \in {matchesOf(t) : t \in UniformTotals}
    /\ showMatches = TRUE
    /\ users = <<>>
    /\ authUid = 0
    /\ snapshot = <<>>
    /\ potentialPartners = <<>>
    /\ isScanning = FALSE
    /\ scanProgress = ProgressFull
    /\ intervalActive = FALSE
    /\ profileLoaded = TRUE
    /\ currentUserProfile = RequesterRecord
    /\ ScoreIdle
    /\ LoopIdle
    /\ radarPositions = <<>>

layoutFrame ==
    UNCHANGED <<users, authUid, snapshot, potentialPartners, isScanning,
                showMatches, scanProgress, matchedPartners, intervalActive,
                profileLoaded, currentUserProfile, container, scoreVars>>

\* calculateRadarPositions up to the call of adjustPositions
PlacePartners ==
    /\ pc = "render"
    /\ container.mounted
    /\ placement' = [n \in 1..Len(matchedPartners) |->
                        placementOf(matchedPartners, n - 1)]
    /\ positions' = initialPositions(container, matchedPartners)
    /\ passI' = 0
    /\ pc' = "pass"
    /\ UNCHANGED <<pairJ, pairK, hasCollision, passStart, radarPositions>>
    /\ layoutFrame

\* for (let i = 0; i < MAX_ITERATIONS; i++) { let hasCollision = false; ...
\* with the return after the last pass
BeginPass ==
    /\ pc = "pass"
    /\ IF passI < MAX_ITERATIONS
          THEN /\ hasCollision' = FALSE
               /\ pairJ' = 1
               /\ pairK' = 2
               /\ passStart' = positions
               /\ pc' = (IF Len(positions) >= 2 THEN "pair" ELSE "endpass")
               /\ UNCHANGED radarPositions
          ELSE /\ radarPositions' = positions
               /\ pc' = "returned"
               /\ UNCHANGED <<hasCollision, pairJ, pairK, passStart>>
    /\ UNCHANGED <<positions, passI, placement>>
    /\ layoutFrame

\* the body of the inner loop for the pair (j, k), and the step to the next
\* pair
PairStep ==
    /\ pc = "pair"
    /\ positions' = repel(positions, pairJ, pairK)
    /\ hasCollision' = (hasCollision \/ collides(positions, pairJ, pairK))
    /\ IF pairK < Len(positions)
          THEN /\ pairK' = pairK + 1
               /\ UNCHANGED <<pairJ, pc>>
          ELSE IF pairJ + 1 < Len(positions)
          THEN /\ pairJ' = pairJ + 1
               /\ pairK' = pairJ + 2
               /\ UNCHANGED pc
          ELSE /\ pc' = "endpass"
               /\ UNCHANGED <<pairJ, pairK>>
    /\ UNCHANGED <<passI, passStart, placement, radarPositions>>
    /\ layoutFrame

\* if (!hasCollision) break; and the i++ of the outer loop
EndPass ==
    /\ pc = "endpass"
    /\ IF breaksLoop(hasCollision)
          THEN /\ radarPositions' = positions
               /\ pc' = "returned"
               /\ UNCHANGED passI
          ELSE /\ passI' = passI + 1
               /\ pc' = "pass"
               /\ UNCHANGED radarPositions
    /\ UNCHANGED <<positions, pairJ, pairK, hasCollision, passStart, placement>>
    /\ layoutFrame

NextLayout == PlacePartners \/ BeginPass \/ PairStep \/ EndPass

SpecLayout == InitLayout /\ [][NextLayout]_vars

Returned == pc = "returned"

\* the stepped loops return what adjustPositions computes in one go
SteppedIsAdjustPositions ==
    Returned => radarPositions = calculateRadarPositions(container, matchedPartners)

-----------------------------------------------------------------------------
(* Claims C12, C13, C18: the layout *)

\* the points j and k of pos are at distance MARGIN or more
Apart(pos, j, k) ==
    LET dx == pos[j].x - pos[k].x
        dy == pos[j].y - pos[k].y
    IN  \/ Abs(dx) >= Margin
        \/ Abs(dy) >= Margin
        \/ dx * dx + dy * dy >= Margin * Margin

AllApart(pos) ==
    \A j \in 1..Len(pos), k \in 1..Len(pos) : j < k => Apart(pos, j, k)

\* C12: when the layout returns, either every pair of positions is at
\* distance MARGIN or more, or the repulsion loop ran all MAX_ITERATIONS
\* passes; it never returns early while some pair is closer than MARGIN.
C12_NoEarlyReturnWithCollision ==
    Returned => (AllApart(radarPositions) \/ passI = MAX_ITERATIONS)

\* an early return after passes that moved points, and every pair apart
C12_Witness ==
    /\ Returned
    /\ passI >= 1
    /\ passI < MAX_ITERATIONS
    /\ radarPositions # initialPositions(container, matchedPartners)
    /\ Len(radarPositions) >= 3
    /\ AllApart(radarPositions)

\* the loop can also end by its pass count with a pair still too close
CapReachedWithCollision ==
    Returned /\ passI = MAX_ITERATIONS /\ ~AllApart(radarPositions)

Placed == pc \in {"pass", "pair", "endpass", "returned"}

\* C13: the ring and the normalized radius of a candidate follow from its
\* total alone, whatever its place in the ranked list: total >= 90 gives
\* ring 0 and radius 0.25, total in 80..89 ring 1 and radius 0.40,
\* total < 80 ring 2 and radius 0.60 (radii in hundredths).
C13_RingByTotal ==
    Placed =>
        \A n \in 1..Len(matchedPartners) :
            LET total == matchedPartners[n].smartCompatibility
                v == placement[n]
            IN  /\ total >= 90 => (v.ring = 0 /\ v.radius = 25)
                /\ (total >= 80 /\ total <= 89) => (v.ring = 1 /\ v.radius = 40)
                /\ total < 80 => (v.ring = 2 /\ v.radius = 60)

\* totals 95 and 82 placed at radii 0.25 and 0.40
C13_Witness ==
    /\ Placed
    /\ Len(matchedPartners) = 2
    /\ matchedPartners[1].smartCompatibility = 95
    /\ matchedPartners[2].smartCompatibility = 82
    /\ placement[1].radius = 25
    /\ placement[2].radius = 40

\* a total of the inner ring at the last of six places
InnerRingAtLastPlace ==
    /\ Placed
    /\ Len(matchedPartners) = TopMatches
    /\ matchedPartners[TopMatches].smartCompatibility = 90
    /\ placement[TopMatches].ring = 0

-----------------------------------------------------------------------------
(* Scoring of records that lack fields: one call, then a missing subject    *)
(* list or year of study is filled in with [] or 0 and the call repeated.   *)

\* subject lists of a record: none, empty, one subject
FieldSubjects == {<<FALSE, <<>>>>, <<TRUE, <<>>>>, <<TRUE, <<Calculus>>>>}

\* a record with or without its yearOfStudy
yearSet(p, hasYear) == IF hasYear THEN p ELSE withoutYear(p)

FieldRequesters ==
    {yearSet(Profile(sl[1], sl[2], uni, "F", city, country, 1, "Math"), hy) :
        sl \in FieldSubjects, uni \in {"A", Undefined}, city \in {"X", Undefined},
        country \in {"C1", Undefined}, hy \in BOOLEAN}

FieldPartnerValues ==
    {"A", "B", Undefined} \X {"F", "G"} \X {"X", "Y", Undefined}
        \X {"C1", "C2", Undefined} \X (0..3)

FieldPartners ==
    {yearSet(Profile(sl[1], sl[2], f[1], f[2], f[3], f[4], f[5], "Math"), hy) :
        sl \in FieldSubjects, f \in FieldPartnerValues, hy \in BOOLEAN}

InitFields ==
    /\ pc = "call"
    /\ profileLoaded = TRUE
    /\ currentUserProfile \in FieldRequesters
    /\ partner \in FieldPartners
    /\ locals = ZeroLocals
    /\ compatibility = NoCompatibility
    /\ previous = NoPrevious
    /\ ScanIdle
    /\ LayoutIdle

\* the record with the missing field given as [] or as 0
filled(p, field) ==
    IF field = "subjects" THEN [p EXCEPT !.hasSubjects = TRUE, !.subjects = <<>>]
    ELSE [p EXCEPT !.hasYear = TRUE, !.yearOfStudy = 0]

lacks(p, field) == IF field = "subjects" THEN ~p.hasSubjects ELSE ~p.hasYear

\* the same two records are scored again, a missing field of one of them
\* now present as [] or 0
FillAbsent ==
    /\ pc = "scored"
    /\ ~previous.scored
    /\ \E field \in {"subjects", "yearOfStudy"}, side \in {"partner", "requester"} :
          /\ IF side = "partner"
                THEN /\ lacks(partner, field)
                     /\ partner' = filled(partner, field)
                     /\ UNCHANGED currentUserProfile
                ELSE /\ lacks(currentUserProfile, field)
                     /\ currentUserProfile' = filled(currentUserProfile, field)
                     /\ UNCHANGED partner
          /\ previous' = [scored |-> TRUE, locals |-> locals,
                          compatibility |-> compatibility,
                          change |-> [side |-> side, field |-> field]]
    /\ pc' = "call"
    /\ UNCHANGED <<profileLoaded, locals, compatibility>>
    /\ UNCHANGED scanVars
    /\ UNCHANGED layoutVars

NextFields == Score \/ FillAbsent

SpecFields == InitFields /\ [][NextFields]_vars

-----------------------------------------------------------------------------
(* Claims C14..C17: institution, location, missing fields *)

\* C14: institutionScore is 100 whenever the two universities are the same,
\* whether or not the faculties match, and 60 whenever they differ; the
\* faculty never changes the score.
C14_InstitutionScore ==
    Scored =>
        /\ locals.institutionScore =
               (IF partner.university = currentUserProfile.university
                   THEN 100 ELSE 60)
        /\ compatibility.institution = locals.institutionScore

\* same university, another faculty
C14_Witness ==
    /\ Scored
    /\ partner.university = "A"
    /\ currentUserProfile.university = "A"
    /\ partner.faculty # currentUserProfile.faculty
    /\ compatibility.institution = 100

\* C15: locationScore is 100 for the same city, 70 for the same country and
\* another city, 30 otherwise; the city is compared first.
C15_LocationScore ==
    Scored =>
        /\ partner.city = currentUserProfile.city => locals.locationScore = 100
        /\ (partner.city # currentUserProfile.city
              /\ partner.country = currentUserProfile.country)
               => locals.locationScore = 70
        /\ (partner.city # currentUserProfile.city
              /\ partner.country # currentUserProfile.country)
               => locals.locationScore = 30
        /\ compatibility.location = locals.locationScore

\* the same city recorded under another country
C15_Witness ==
    /\ Scored
    /\ partner.city = "X"
    /\ currentUserProfile.city = "X"
    /\ partner.country = "C2"
    /\ currentUserProfile.country = "C1"
    /\ compatibility.location = 100

NoSubjects(p) == ~p.hasSubjects \/ p.subjects = <<>>

\* C16 as stated: every missing or empty field contributes zero
C16_Original ==
    Scored =>
        /\ (NoSubjects(partner) \/ NoSubjects(currentUserProfile))
               => locals.subjectScore.num = 0
        /\ (partner.university = Undefined
              \/ currentUserProfile.university = Undefined)
               => locals.institutionScore = 0
        /\ (partner.city = Undefined /\ partner.country = Undefined)
               => locals.locationScore = 0
        /\ (~partner.hasYear \/ ~currentUserProfile.hasYear)
               => locals.yearBonus = 0

WholePercent(n) == n \in 0..100

\* C16: scoring records that lack fields gives a breakdown of four numbers
\* in 0..100.  A missing or empty subject list gives subjectScore 0 and a
\* missing year gives yearBonus 0.  A missing university, city or country is
\* compared like a value: institutionScore is 60 if one side lacks the
\* university and 100 if both do; locationScore is 100 if both lack the
\* city, and 70 or 30 by the countries if one does.
C16_AbsentFields ==
    Scored =>
        /\ WholePercent(compatibility.total)
        /\ WholePercent(compatibility.subject)
        /\ WholePercent(compatibility.institution)
        /\ WholePercent(compatibility.location)
        /\ (NoSubjects(partner) \/ NoSubjects(currentUserProfile))
               => (locals.subjectScore.num = 0 /\ compatibility.subject = 0)
        /\ (~partner.hasYear \/ ~currentUserProfile.hasYear)
               => locals.yearBonus = 0
        /\ ((partner.university = Undefined)
               # (currentUserProfile.university = Undefined))
               => compatibility.institution = 60
        /\ (partner.university = Undefined
              /\ currentUserProfile.university = Undefined)
               => compatibility.institution = 100
        /\ ((partner.city = Undefined) # (currentUserProfile.city = Undefined))
               => compatibility.location =
                      (IF partner.country = currentUserProfile.country
                          THEN 70 ELSE 30)
        /\ (partner.city = Undefined /\ currentUserProfile.city = Undefined)
               => compatibility.location = 100

\* nothing but the study field on the partner's record, the requester complete
C16_Witness ==
    /\ Scored
    /\ ~partner.hasSubjects
    /\ partner.university = Undefined
    /\ partner.city = Undefined
    /\ partner.country = Undefined
    /\ ~partner.hasYear
    /\ currentUserProfile.hasSubjects
    /\ currentUserProfile.subjects # <<>>
    /\ currentUserProfile.university = "A"
    /\ currentUserProfile.city = "X"
    /\ currentUserProfile.country = "C1"
    /\ currentUserProfile.hasYear
    /\ compatibility = [total |-> 24, subject |-> 0, institution |-> 60,
                        location |-> 30]

Rescored == Scored /\ previous.scored

\* C17 as stated: a missing subject list scores as [], a missing year as 0
C17_Original == Rescored => compatibility = previous.compatibility

\* the record that was left alone
otherYear ==
    IF previous.change.side = "partner" THEN currentUserProfile ELSE partner

\* C17: a missing subject list gives the same breakdown as the empty list.
\* A missing year gives the same breakdown as year 0 unless the other record
\* has a year of 0 or 1: then year 0 earns the bonus and the total is 10
\* higher, the rest of the breakdown the same.
C17_AbsentAsEmpty ==
    Rescored =>
        /\ previous.change.field = "subjects"
               => compatibility = previous.compatibility
        /\ (previous.change.field = "yearOfStudy"
              /\ ~(otherYear.hasYear /\ otherYear.yearOfStudy <= 1))
               => compatibility = previous.compatibility
        /\ (previous.change.field = "yearOfStudy"
              /\ otherYear.hasYear /\ otherYear.yearOfStudy <= 1)
               => compatibility =
                      [previous.compatibility EXCEPT !.total = @ + 10]

\* a partner without a year, the requester in year 1: the total rises by 10
\* when the year is given as 0
C17_Witness ==
    /\ Rescored
    /\ previous.change = [side |-> "partner", field |-> "yearOfStudy"]
    /\ currentUserProfile.hasYear
    /\ currentUserProfile.yearOfStudy = 1
    /\ compatibility.total = previous.compatibility.total + 10

\* a missing subject list given as []: the same breakdown
SubjectsFilledSame ==
    /\ Rescored
    /\ previous.change.field = "subjects"
    /\ compatibility = previous.compatibility
    /\ compatibility.total > 0

-----------------------------------------------------------------------------
(* Claim C18: a container without size *)

AtOrigin(position) == position.x = 0 /\ position.y = 0

AllAtOrigin(pos) == \A n \in 1..Len(pos) : AtOrigin(pos[n])

OnZeroCanvas == container = ZeroContainer

\* C18 as stated: every returned position is at the origin
C18_Original == (Returned /\ OnZeroCanvas) => AllAtOrigin(radarPositions)

\* C18: with width and height zero the layout returns one position for each
\* candidate; all candidates are first placed at the origin; fewer than two
\* stay there, two or more are pushed apart by the repulsion loop, so that
\* the returned positions are not all at the origin (two candidates end at
\* (5, 0) and (-5, 0)).
C18_ZeroCanvas ==
    OnZeroCanvas =>
        /\ (pc = "pass" /\ passI = 0) => AllAtOrigin(positions)
        /\ Returned =>
              /\ Len(radarPositions) = Len(matchedPartners)
              /\ Len(radarPositions) < 2 => AllAtOrigin(radarPositions)
              /\ Len(radarPositions) >= 2 => ~AllAtOrigin(radarPositions)
              /\ Len(radarPositions) = 2 =>
                    /\ radarPositions[1].x = 5 * Unit
                    /\ radarPositions[1].y = 0
                    /\ radarPositions[2].x = -5 * Unit
                    /\ radarPositions[2].y = 0

\* six candidates on the zero canvas, none of them left at the origin
C18_Witness ==
    /\ Returned
    /\ OnZeroCanvas
    /\ Len(radarPositions) = TopMatches
    /\ \A n \in 1..TopMatches : ~AtOrigin(radarPositions[n])

-----------------------------------------------------------------------------
(* Claim C19: nothing fetched *)

ScanShown == pc = "idle" /\ showMatches

\* C19: when the fetch delivered nothing (the query threw, or found no
\* record) or every fetched record was the requester's own, the ranked list
\* is empty; and the layout of an empty ranked list is an empty list of
\* positions.
C19_EmptyInEmptyOut ==
    ScanShown =>
        /\ (snapshot = <<>> \/ potentialPartners = <<>>) => matchedPartners = <<>>
        /\ matchedPartners = <<>> => radarPositions = <<>>

\* the fetch failed although other users are stored
C19_Witness ==
    /\ ScanShown
    /\ snapshot = <<>>
    /\ Len(users) > 1
    /\ matchedPartners = <<>>
    /\ radarPositions = <<>>

\* the query found the requester's own record and no other
OnlyRequesterFetched ==
    /\ ScanShown
    /\ Len(snapshot) = 1
    /\ potentialPartners = <<>>
    /\ matchedPartners = <<>>
    /\ radarPositions = <<>>

-----------------------------------------------------------------------------
(* Claim C20: inputs are left as they were *)

\* the step of the interval callback that ranks and shows the matches
ScanEnds == pc = "ticking" /\ pc' = "idle"

-----------------------------------------------------------------------------
(* Claims C21, C22: one repulsion step, the passes *)

\* dx * dx + dy * dy of the points j and k (only used where both differences
\* are near MARGIN or below)
SquareDistance(pos, j, k) ==
    (pos[j].x - pos[k].x) * (pos[j].x - pos[k].x)
        + (pos[j].y - pos[k].y) * (pos[j].y - pos[k].y)

\* the step about to be taken is the body of the inner loop for (j, k)
AtPair == pc = "pair"

\* the pair (j, k) is at one place
Coincident == positions[pairJ].x = positions[pairK].x
                 /\ positions[pairJ].y = positions[pairK].y

\* the step leaves every point but j and k where it was
OthersKept ==
    \A n \in 1..Len(positions) : n \notin {pairJ, pairK} => positions'[n] = positions[n]

\* coincident points end at +MARGIN/2 and -MARGIN/2 along the x axis
CoincidentSplit ==
    /\ positions'[pairJ].x = stored(positions[pairJ].x + Margin \div 2)
    /\ positions'[pairK].x = stored(positions[pairK].x - Margin \div 2)
    /\ positions'[pairJ].y = positions[pairJ].y
    /\ positions'[pairK].y = positions[pairK].y

Tolerance == Unit \div 100

CleanPassEnded == pc = "endpass" /\ ~hasCollision

\* pairs (j, k), j < k, of the list being laid out
PairCount == (Len(matchedPartners) * (Len(matchedPartners) - 1)) \div 2

\* pairs of the current pass still to visit, the pair (j, k) included
PairsLeft ==
    PairCount - ((pairJ - 1) * Len(positions) - ((pairJ - 1) * pairJ) \div 2
                    + (pairK - pairJ - 1))

\* steps the layout can still take at most
StepsLeft ==
    CASE pc = "render" -> MAX_ITERATIONS * (PairCount + 2) + 2
      [] pc = "pass" -> (MAX_ITERATIONS - passI) * (PairCount + 2) + 1
      [] pc = "pair" -> (MAX_ITERATIONS - passI - 1) * (PairCount + 2) + 2 + PairsLeft
      [] pc = "endpass" -> (MAX_ITERATIONS - passI - 1) * (PairCount + 2) + 2
      [] pc = "returned" -> 0

\* C22: the repulsion loop always terminates (every step lowers the number
\* of steps it can still take), after at most MAX_ITERATIONS passes; a pass
\* in which no pair was closer than MARGIN has changed no position and is
\* the last one: the loop returns right after it.
C22_Termination ==
    /\ [](StepsLeft >= 0)
    /\ [][StepsLeft' < StepsLeft]_vars
    /\ [](passI <= MAX_ITERATIONS /\ (pc \in {"pair", "endpass"} => passI < MAX_ITERATIONS))
    /\ [](CleanPassEnded => positions = passStart)
    /\ [][CleanPassEnded => (pc' = "returned" /\ radarPositions' = positions)]_vars

\* returned after a clean pass that followed passes with collisions
C22_Witness ==
    /\ Returned
    /\ ~hasCollision
    /\ passI >= 2
    /\ passI < MAX_ITERATIONS
    /\ Len(positions) >= 2
    /\ positions = passStart
    /\ radarPositions = positions

-----------------------------------------------------------------------------
(* Claim C23: the initial placement *)

\* the partners have been placed and no pair has been visited yet
JustPlaced == pc = "pass" /\ passI = 0

DistinctPoints(pos) ==
    \A a \in 1..Len(pos), b \in 1..Len(pos) :
        a # b => (pos[a].x # pos[b].x \/ pos[a].y # pos[b].y)

\* C23: the candidate at index i of n (1 <= n <= 6) starts at the angle
\* i * 360 / n whatever its ring: the angles are pairwise distinct, lie in
\* [0, 360), index 0 has angle 0; and on a container with width and height
\* no two candidates start at the same point.
C23_InitialPlacement ==
    Placed =>
        LET n == Len(matchedPartners)
        IN  /\ Len(placement) = n
            /\ n <= TopMatches
            /\ \A a \in 1..n :
                  /\ placement[a].angle * n = (a - 1) * 360
                  /\ placement[a].angle >= 0
                  /\ placement[a].angle < 360
            /\ \A a \in 1..n, b \in 1..n :
                  a # b => placement[a].angle # placement[b].angle
            /\ (JustPlaced /\ container.clientWidth > 0 /\ container.clientHeight > 0)
                   => DistinctPoints(positions)

\* six candidates of three rings on the narrow container, each at its own
\* point
C23_Witness ==
    /\ JustPlaced
    /\ container = NarrowContainer
    /\ Len(positions) = TopMatches
    /\ placement[1].ring = 0
    /\ placement[3].ring = 1
    /\ placement[TopMatches].ring = 2
    /\ placement[TopMatches].angle = 300
    /\ DistinctPoints(positions)

-----------------------------------------------------------------------------
(* Claims C24, C28: order and states of a scan *)

\* the fetch of the running scan has not resolved yet
Fetching == pc = "fetching"

\* C24: while the fetch of a scan is pending no matches are shown; the match
\* list changes, and becomes shown, only in one step of the timer callback,
\* taken after the fetch has resolved, which ranks what that fetch returned.
C24_ScanOrder ==
    /\ [](Fetching => (isScanning /\ ~showMatches /\ ~intervalActive))
    /\ [][(matchedPartners' # matchedPartners \/ (~showMatches /\ showMatches'))
            => /\ pc = "ticking"
               /\ showMatches'
               /\ potentialPartners = collectPartners(snapshot, currentUserProfile)
               /\ matchedPartners' =
                      smartMatches(currentUserProfile, potentialPartners)]_vars

\* a second scan is fetching: the matches of the first are stored but hidden
C24_Witness ==
    /\ Fetching
    /\ ~showMatches
    /\ Len(matchedPartners) = TopMatches
    /\ scanProgress = 0

\* C28: scanProgress is an even number in 0..100; isScanning and showMatches
\* are never both true; matches are shown only when the scan started last
\* has reached 100, cleared its timer and stored its ranked list.
C28_ScanStates ==
    /\ scanProgress \in 0..100
    /\ scanProgress % 2 = 0
    /\ ~(isScanning /\ showMatches)
    /\ showMatches =>
          /\ scanProgress = 100
          /\ ~intervalActive
          /\ pc = "idle"
          /\ matchedPartners = smartMatches(currentUserProfile, potentialPartners)

\* half way through a second scan: scanning, nothing shown
C28_Witness ==
    /\ isScanning
    /\ ~showMatches
    /\ intervalActive
    /\ scanProgress = 50
    /\ matchedPartners # <<>>

-----------------------------------------------------------------------------
(* Claim C25: the legend *)

\* the lowest total the legend names for the ring: 90%+, 80-89%, 70-79%
legendFrom(ring) == IF ring = 0 THEN 90 ELSE IF ring = 1 THEN 80 ELSE 70

\* the highest total the legend names for the ring
legendTo(ring) == IF ring = 0 THEN 100 ELSE IF ring = 1 THEN 89 ELSE 79

\* C25: every candidate shown has a total in the range the legend gives for
\* its ring; so a candidate of the outer ring has a total in 70..79 and no
\* candidate shown has a total below 70.
C25_LegendConsistent ==
    (Placed /\ showMatches) =>
        \A n \in 1..Len(matchedPartners) :
            /\ matchedPartners[n].smartCompatibility >= legendFrom(placement[n].ring)
            /\ matchedPartners[n].smartCompatibility <= legendTo(placement[n].ring)

\* a candidate with the lowest total of the scorer is shown in the outer ring
BelowLegendShown ==
    /\ Placed
    /\ showMatches
    /\ Len(matchedPartners) = 1
    /\ matchedPartners[1].smartCompatibility = 24
    /\ placement[1].ring = 2

-----------------------------------------------------------------------------
(* The least total: records with and without fields, and partners whose    *)
(* subject list is long and holds one subject of the requester              *)

\* lengths of the long subject lists
LongLengths == {1, 2, 60, 79, 81, 100}

\* one subject of the requester, then subjects the requester does not take
longSubjects(n) == <<Calculus>> \o [k \in 1..(n - 1) |-> Physics]

LongPartners ==
    {Profile(TRUE, longSubjects(n), "B", "G", "Y", "C2", year, "Math") :
        n \in LongLengths, year \in {1, 3}}

InitMinimum ==
    /\ pc = "call"
    /\ profileLoaded \in BOOLEAN
    /\ currentUserProfile \in
           (IF profileLoaded THEN FieldRequesters ELSE {NullProfile})
    /\ partner \in FieldPartners \cup LongPartners
    /\ locals = ZeroLocals
    /\ compatibility = NoCompatibility
    /\ previous = NoPrevious
    /\ ScanIdle
    /\ LayoutIdle

NextMinimum == Score

SpecMinimum == InitMinimum /\ [][NextMinimum]_vars

\* the inputs of the least total
NoOverlap == commonSubjects(currentUserProfile, partner) = <<>>
UniversitiesDiffer == partner.university # currentUserProfile.university
PlacesDiffer ==
    /\ partner.city # currentUserProfile.city
    /\ partner.country # currentUserProfile.country
\* the years are within 1 of each other (a missing year is within 1 of none)
YearsClose ==
    /\ partner.hasYear
    /\ currentUserProfile.hasYear
    /\ Abs(partner.yearOfStudy - currentUserProfile.yearOfStudy) <= 1

\* fewer than 1 in 80 of the longer list overlaps: subjectScore < 1.25
OverlapRoundsAway ==
    80 * Len(commonSubjects(currentUserProfile, partner))
        < subjectDenominator(currentUserProfile, partner)

LeastInputs == NoOverlap /\ UniversitiesDiffer /\ PlacesDiffer

\* C26 as stated: with the requester present institutionScore is 60 or 100,
\* locationScore is 30, 70 or 100 and total is at least 24; 24 is returned
\* exactly when no subject overlaps, the universities differ, city and
\* country both differ and the years differ by more than 1 (34 with the
\* bonus); 0 is returned only when the requester profile is absent.
C26_Original ==
    /\ (Scored /\ profileLoaded) =>
          /\ locals.institutionScore \in {60, 100}
          /\ locals.locationScore \in {30, 70, 100}
          /\ compatibility.total >= 24
          /\ compatibility.total = 24 <=> (LeastInputs /\ ~YearsClose)
          /\ (LeastInputs /\ YearsClose) => compatibility.total = 34
    /\ (Scored /\ compatibility.total = 0) => ~profileLoaded

\* C26 amended: with the requester present institutionScore is 60 or 100,
\* locationScore is 30, 70 or 100 and total is at least 24; 24 is returned
\* exactly when the universities differ, city and country both differ, the
\* years are not within 1 of each other and subjectScore is below 1.25, that
\* is when no subject overlaps or the overlap is fewer than 1 in 80 of the
\* longer list (34 for such inputs with the year bonus); 0 is returned
\* only when the requester profile is absent.
C26_LeastTotal ==
    /\ (Scored /\ profileLoaded) =>
          /\ locals.institutionScore \in {60, 100}
          /\ locals.locationScore \in {30, 70, 100}
          /\ compatibility.total >= 24
          /\ compatibility.total = 24 <=>
                /\ OverlapRoundsAway
                /\ UniversitiesDiffer
                /\ PlacesDiffer
                /\ ~YearsClose
          /\ (OverlapRoundsAway /\ UniversitiesDiffer /\ PlacesDiffer
                /\ YearsClose) => compatibility.total = 34
          /\ NoOverlap => OverlapRoundsAway
    /\ (Scored /\ ~profileLoaded) => compatibility.total = 0
    /\ (Scored /\ compatibility.total = 0) => ~profileLoaded

\* one subject shared in a list of 81, and the total is the least one
C26_Witness ==
    /\ Scored
    /\ profileLoaded
    /\ ~NoOverlap
    /\ Len(partner.subjects) = 81
    /\ compatibility.total = 24

-----------------------------------------------------------------------------
(* Claim C27: sums of the coordinates, identity of the returned list *)

RECURSIVE SumX(_)
SumX(pos) == IF pos = <<>> THEN 0 ELSE pos[1].x + SumX(Tail(pos))

RECURSIVE SumY(_)
SumY(pos) == IF pos = <<>> THEN 0 ELSE pos[1].y + SumY(Tail(pos))

\* the loop of adjustPositions is running or has returned
InLoop == pc \in {"pass", "pair", "endpass", "returned"}

\* pos holds the candidates of matchedPartners, in their order
SameCandidates(pos) ==
    /\ Len(pos) = Len(matchedPartners)
    /\ \A n \in 1..Len(pos) : pos[n].id = matchedPartners[n].id

-----------------------------------------------------------------------------
(* Claim C30: one scan at a time *)

\* C30: a scan starts (its fetch begins, progress back at 0) only from a
\* state with isScanning false and the requester profile loaded; the interval
\* timer is set only when none is active, and is active only during a scan;
\* the step that scores and ranks runs with the requester profile present.
C30_OneScan ==
    /\ [][(pc' = "fetching" /\ (pc # "fetching" \/ scanProgress' # scanProgress))
            => (~isScanning /\ profileLoaded /\ ~intervalActive /\ isScanning')]_vars
    /\ [][intervalActive' => (intervalActive \/ (Fetching /\ ~intervalActive))]_vars
    /\ [][(Fetching /\ ~Fetching') => (~intervalActive /\ intervalActive')]_vars
    /\ [](intervalActive => (isScanning /\ pc = "ticking"))
    /\ [](isScanning => (profileLoaded /\ currentUserProfile # NullProfile))
    /\ [][(isScanning /\ ~isScanning')
            => /\ profileLoaded
               /\ currentUserProfile # NullProfile
               /\ matchedPartners' =
                      smartMatches(currentUserProfile, potentialPartners)]_vars

\* the timer of a second scan has just been set, the first scan long over
C30_Witness ==
    /\ pc = "ticking"
    /\ intervalActive
    /\ isScanning
    /\ scanProgress = 0
    /\ matchedPartners # <<>>

-----------------------------------------------------------------------------
(* Claim C29: every scan ends. Checked on the small stores, the users      *)
(* query settling and the interval timer firing as long as it is set.      *)

\* most records of a store of the fair specification
SmallStore == 2

InitScanSmall == InitScan /\ Len(users) <= SmallStore

\* await fetchPotentialPartners() settles, by its value or by its catch;
\* setInterval(..., 50) calls back again and again until clearInterval
SpecScanFair ==
    /\ InitScanSmall
    /\ [][NextScan]_vars
    /\ WF_vars(FetchPotentialPartners \/ FetchPotentialPartnersError)
    /\ WF_vars(Tick)

\* the state a scan ends in
ScanDone ==
    /\ ~isScanning
    /\ showMatches
    /\ scanProgress = ProgressFull
    /\ ~intervalActive

\* C29: every scan started ends, in the state isScanning = false,
\* showMatches = true, scanProgress = 100; before 100 each tick adds 2 and
\* keeps the timer, so that the 50 increments from 0 end at 100, and the
\* tick at 100 clears the timer and ends the scan; a scan whose fetch failed
\* or found nobody ends in the same state with the empty list; with the timer
\* cleared nothing changes until the next scan is started.
C29_ScanEnds ==
    /\ isScanning ~> ScanDone
    /\ [][(pc = "ticking" /\ scanProgress < ProgressFull)
            => /\ scanProgress' = scanProgress + ProgressStep
               /\ intervalActive'
               /\ isScanning'
               /\ ~showMatches']_vars
    /\ [][(pc = "ticking" /\ scanProgress = ProgressFull) => ScanDone']_vars
    /\ [][(isScanning /\ ~isScanning' /\ potentialPartners = <<>>)
            => (ScanDone' /\ matchedPartners' = <<>>)]_vars
    /\ [][(pc = "idle") => (pc' = "fetching" /\ scanProgress' = 0)]_vars

\* a scan whose fetch failed has ended: full progress, the empty list shown,
\* although the store holds a partner in the requester's field
C29_Witness ==
    /\ ScanDone
    /\ pc = "idle"
    /\ snapshot = <<>>
    /\ matchedPartners = <<>>
    /\ \E k \in 1..Len(users) : users[k] = CloseRecord

=============================================================================
